---- MODULE Spec2Model ----
(***************************************************************************)
(* goog.net.streams.xhrStreamReader: the XhrStreamReader class of          *)
(* closure/goog/net/streams/xhrstreamreader.js.                            *)
(*                                                                         *)
(* The reader observes READY_STATE_CHANGE events of one XhrIo, selects a   *)
(* StreamParser from the response headers, feeds it the new part of the    *)
(* response text, delivers the parsed messages to the data handler and     *)
(* keeps a status.  Everything runs inside readyStateChangeHandler_, one   *)
(* event at a time.  The XhrIo, the parsers and the two handlers are       *)
(* outside the class: what they return, and whether they throw, is chosen  *)
(* nondeterministically at each call.                                      *)
(*                                                                         *)
(* A method is an operator from the reader (a record of its fields) to the *)
(* SET of readers it can leave behind; the field exc of a result says that *)
(* the method ended by throwing.                                           *)
(***************************************************************************)
EXTENDS Integers, Sequences, FiniteSets, TLC

\* ---- bounds ------------------------------------------------------------
\* longest response text
MaxLen == 2

\* ---- XhrStreamReaderStatus ---------------------------------------------
INIT == 0
ACTIVE == 1
SUCCESS == 2
XHR_ERROR == 3
NO_DATA == 4
BAD_DATA == 5
HANDLER_EXCEPTION == 6
TIMEOUT == 7
CANCELLED == 8

\* ---- goog.net.XmlHttp.ReadyState, goog.net.HttpStatus -------------------
INTERACTIVE == 3
COMPLETE == 4
OK == 200
PARTIAL_CONTENT == 206

\* goog.net.ErrorCode: the two codes the reader tests for, and two others
ErrorCodes == {"NO_ERROR", "HTTP_ERROR", "ABORT", "TIMEOUT"}

\* HTTP status codes tried: the two successful ones and a failure
StatusCodes == {OK, PARTIAL_CONTENT, 500}

\* ---- strings -----------------------------------------------------------
\* A string is a sequence of one-character strings.  null and '' are both
\* falsy in every test the reader makes, and both are the empty sequence.
Null == << >>

UpperCase == << "A", "B", "C", "D", "E", "F", "G", "H", "I", "J", "K", "L", "M",
                "N", "O", "P", "Q", "R", "S", "T", "U", "V", "W", "X", "Y", "Z" >>
LowerCase == << "a", "b", "c", "d", "e", "f", "g", "h", "i", "j", "k", "l", "m",
                "n", "o", "p", "q", "r", "s", "t", "u", "v", "w", "x", "y", "z" >>

\* The response body, one distinct character per position, and the response
\* texts an event can show: what has arrived of it.
Body == [ i \in 1..MaxLen |-> LowerCase[i] ]

Texts == { SubSeq(Body, 1, n) : n \in 0..MaxLen }

toLowerCase(str) ==
  [ i \in 1..Len(str) |->
      IF \E k \in 1..26 : UpperCase[k] = str[i]
      THEN LowerCase[CHOOSE k \in 1..26 : UpperCase[k] = str[i]]
      ELSE str[i] ]

startsWith(str, prefix) ==
  /\ Len(str) >= Len(prefix)
  /\ SubSeq(str, 1, Len(prefix)) = prefix

substr(str, start) == SubSeq(str, start + 1, Len(str))

APPLICATION_JSON ==
  << "a", "p", "p", "l", "i", "c", "a", "t", "i", "o", "n", "/", "j", "s", "o", "n" >>
APPLICATION_JSON_PROTOBUF ==
  APPLICATION_JSON \o << "+", "p", "r", "o", "t", "o", "b", "u", "f" >>
APPLICATION_X_PROTOBUF ==
  << "a", "p", "p", "l", "i", "c", "a", "t", "i", "o", "n", "/",
     "x", "-", "p", "r", "o", "t", "o", "b", "u", "f" >>
BASE64 == << "b", "a", "s", "e", "6", "4" >>
GZIP == << "g", "z", "i", "p" >>
TEXT_PLAIN == << "t", "e", "x", "t", "/", "p", "l", "a", "i", "n" >>
CHARSET == << ";", "c", "h", "a", "r", "s", "e", "t", "=", "u", "t", "f", "-", "8" >>

\* the (Content-Type, Content-Transfer-Encoding) pairs a response is given
HeaderCases ==
  { << Null, Null >>,
    << TEXT_PLAIN, Null >>,
    << [APPLICATION_JSON EXCEPT ![1] = "A"] \o CHARSET, GZIP >>,
    << APPLICATION_JSON_PROTOBUF, Null >>,
    << APPLICATION_X_PROTOBUF, Null >>,
    << [APPLICATION_X_PROTOBUF EXCEPT ![13] = "X"], [BASE64 EXCEPT ![1] = "B"] >>,
    << APPLICATION_X_PROTOBUF, GZIP >> }


\* what an XhrIo can show at a READY_STATE_CHANGE event.  Before the body
\* starts (readyState below INTERACTIVE) there is no response text, no error
\* code and no status code; the error code is set with COMPLETE.
Snapshots ==
  { [readyState |-> rs, lastErrorCode |-> "NO_ERROR", status |-> -1, responseText |-> Null]
      : rs \in 0..(INTERACTIVE - 1) }
  \cup
  { [readyState |-> INTERACTIVE, lastErrorCode |-> "NO_ERROR", status |-> sc, responseText |-> t]
      : sc \in StatusCodes, t \in Texts }
  \cup
  { [readyState |-> COMPLETE, lastErrorCode |-> ec, status |-> sc, responseText |-> t]
      : ec \in ErrorCodes, sc \in StatusCodes, t \in Texts }

\* what parser_.parse(newData) can do: throw, return null (no complete
\* message yet) or return an array of messages, which may be empty
ParseResults ==
  { [kind |-> "throw", messages |-> << >>],
    [kind |-> "null", messages |-> << >>],
    [kind |-> "array", messages |-> << >>],
    [kind |-> "array", messages |-> << "m1", "m2" >>] }

\* ---- state -------------------------------------------------------------
VARIABLES
  xhr,            \* the XhrIo: the snapshot of the latest event and the two headers
  xhr_,           \* this.xhr_: "xhr", or "null" after clear_
  eventHandler_,  \* TRUE while readyStateChangeHandler_ is listening on the XhrIo
  parser_,        \* this.parser_: "null" or the class of the parser
  pos_,           \* this.pos_
  status_,        \* this.status_
  statusHandler_, \* TRUE when a status handler is set
  dataHandler_,   \* TRUE when a data handler is set
  events,         \* what the latest operation did, in order
  escaped,        \* the latest readyStateChangeHandler_ ended by throwing
  abortCalls,     \* calls of xhr.abort() by the reader
  disposeCalls,   \* calls of xhr.dispose() by the reader
  parserTried,    \* getParserByResponseHeader_ ran in an earlier event
  parsed,         \* all the data given to parser_.parse so far, in order
  lenMonotone     \* no response text read so far was shorter than the one before

vars == << xhr, xhr_, eventHandler_, parser_, pos_, status_, statusHandler_,
           dataHandler_, events, escaped, abortCalls, disposeCalls, parserTried,
           parsed, lenMonotone >>

\* the reader as a record: its fields, what it did to the XhrIo and to the
\* handlers during the current operation, exc, a pending exception, and
\* done, set by a return statement of onReadyStateChanged_
This ==
  [ xhr_ |-> xhr_, eventHandler_ |-> eventHandler_, parser_ |-> parser_,
    pos_ |-> pos_, status_ |-> status_, statusHandler_ |-> statusHandler_,
    dataHandler_ |-> dataHandler_,
    events |-> << [op |-> "enter", st |-> status_, n |-> pos_,
                   s |-> (IF statusHandler_ THEN << "statusHandler" >> ELSE << >>)
                         \o (IF dataHandler_ THEN << "dataHandler" >> ELSE << >>)] >>,
    abortCalls |-> abortCalls, disposeCalls |-> disposeCalls,
    parserTried |-> parserTried, parsed |-> parsed, exc |-> FALSE, done |-> FALSE ]

\* an entry of events: the operation, the status when it was done, a number
\* and a string or list that go with it.  The first entry of an event is
\* "enter", with the status and the cursor at entry and the handlers set.
Log(r, op, n, s) ==
  [r EXCEPT !.events = Append(@, [op |-> op, st |-> r.status_, n |-> n, s |-> s])]

\* a callee throws: who is recorded, and the exception is pending
Throw(r, who) == [Log(r, "throw", 0, << who >>) EXCEPT !.exc = TRUE]

\* statement sequencing: of the readers a statement can leave behind, the
\* next statement runs on those that neither threw nor returned
Running(S) == { r \in S : ~r.exc /\ ~r.done }

Stopped(S) == S \ Running(S)

Return(r) == [r EXCEPT !.done = TRUE]

\* ---- methods -----------------------------------------------------------
\* this.statusHandler_(): returns or throws
callStatusHandler(r) ==
  LET called == Log(r, "statusHandler", r.status_, << >>)
  IN  { called, Throw(called, "statusHandler") }

updateStatus_Always(r, status) ==
  LET set == Log([r EXCEPT !.status_ = status], "updateStatus", status, << >>)
  IN  IF set.statusHandler_ THEN callStatusHandler(set) ELSE { set }

updateStatus_(r, status) ==
  LET current == r.status_
  IN  IF current # status
      THEN LET set == Log([r EXCEPT !.status_ = status], "updateStatus", status, << >>)
           IN  IF set.statusHandler_ THEN callStatusHandler(set) ELSE { set }
      ELSE { Log(r, "updateStatus", status, << >>) }

RECURSIVE readyStateChangeHandler_(_, _, _)

\* the events an XhrIo that is aborted dispatches from inside abort()
AbortSnapshots ==
  { [readyState |-> COMPLETE, lastErrorCode |-> ec, status |-> OK, responseText |-> t,
     headers |-> xhr.headers] : ec \in {"NO_ERROR", "ABORT"}, t \in {Null, Body} }

\* xhr.abort(): the first call may dispatch READY_STATE_CHANGE before it
\* returns, and the handler of the reader is then run inside the call
abort(r) ==
  LET called == Log([r EXCEPT !.abortCalls = @ + 1], "abort", 0, << >>)
  IN  IF r.abortCalls = 0
      THEN { called }
           \cup UNION { { [q EXCEPT !.done = r.done]
                           : q \in readyStateChangeHandler_(called, x, "xhr") }
                         : x \in AbortSnapshots }
      ELSE { called }

dispose(r) == Log([r EXCEPT !.disposeCalls = @ + 1], "dispose", 0, << >>)

clear_AbortFirst(r) ==
  LET removed == Log([r EXCEPT !.eventHandler_ = FALSE], "removeAll", 0, << >>)
  IN  IF removed.xhr_ # "null"
      THEN LET aborted == abort(removed)
           IN  Stopped(aborted)
               \cup { dispose([q EXCEPT !.xhr_ = "null"]) : q \in Running(aborted) }
      ELSE { removed }

clear_(r) ==
  LET removed == Log([r EXCEPT !.eventHandler_ = FALSE], "removeAll", 0, << >>)
  IN  IF removed.xhr_ # "null"
      THEN LET nulled == [removed EXCEPT !.xhr_ = "null"]
               aborted == abort(nulled)
           IN  Stopped(aborted) \cup { dispose(q) : q \in Running(aborted) }
      ELSE { removed }

parserFor_CaseSensitive(h) ==
  IF h[1] = Null THEN "null"
  ELSE IF startsWith(h[1], APPLICATION_JSON)
       THEN IF startsWith(h[1], APPLICATION_JSON_PROTOBUF)
            THEN "PbJsonStreamParser"
            ELSE "JsonStreamParser"
       ELSE IF startsWith(h[1], APPLICATION_X_PROTOBUF)
            THEN IF h[2] = Null THEN "PbStreamParser"
                 ELSE IF h[2] = BASE64 THEN "Base64PbStreamParser"
                 ELSE "null"
            ELSE "null"

\* the class of the parser for the headers h = <<Content-Type,
\* Content-Transfer-Encoding>>, or "null"
parserFor(h) ==
  IF h[1] = Null THEN "null"
  ELSE LET contentType == toLowerCase(h[1])
       IN  IF startsWith(contentType, APPLICATION_JSON)
           THEN IF startsWith(contentType, APPLICATION_JSON_PROTOBUF)
                THEN "PbJsonStreamParser"
                ELSE "JsonStreamParser"
           ELSE IF startsWith(contentType, APPLICATION_X_PROTOBUF)
                THEN LET encoding == h[2]
                     IN  IF encoding = Null THEN "PbStreamParser"
                         ELSE IF toLowerCase(encoding) = BASE64 THEN "Base64PbStreamParser"
                         ELSE "null"
                ELSE "null"

\* getParserByResponseHeader_ with the assignment to parser_ of its caller.
\* The entry of events has the number 1 when the method had been called
\* before.
getParserByResponseHeader_(r, x) ==
  LET called == Log([r EXCEPT !.parserTried = TRUE], "getParserByResponseHeader",
                    IF r.parserTried THEN 1 ELSE 0, x.headers[1])
  IN  { [called EXCEPT !.parser_ = parserFor(x.headers)] }


\* this.dataHandler_(messages): returns or throws
callDataHandler(r, messages) ==
  LET called == Log(r, "dataHandler", 0, messages)
  IN  { called, Throw(called, "dataHandler") }

\* the try block of onReadyStateChanged_: the parser parses the new data,
\* and messages other than null go to the data handler, if there is one
parseAndDeliver(r, slice) ==
  UNION { LET called == Log([r EXCEPT !.parsed = @ \o slice], "parse", 0, slice)
          IN  IF res.kind = "throw" THEN { Throw(called, "parser") }
              ELSE IF res.kind # "null" /\ called.dataHandler_
                   THEN callDataHandler(called, res.messages)
                   ELSE { called }
          : res \in ParseResults }

\* the catch block of onReadyStateChanged_
catchInvalidResponse(r) ==
  LET set == updateStatus_([r EXCEPT !.exc = FALSE], BAD_DATA)
  IN  Stopped(set) \cup UNION { { Return(c) : c \in clear_(q) } : q \in Running(set) }

advance_Added(pos, responseText) == pos + Len(responseText)

\* the cursor once the new data has been taken
advance(pos, responseText) == Len(responseText)

\* the status for a COMPLETE event with an error code or a failed request
classify(r, x, successful) ==
  IF x.readyState = COMPLETE
  THEN IF x.lastErrorCode = "TIMEOUT" THEN updateStatus_(r, TIMEOUT)
       ELSE IF x.lastErrorCode = "ABORT" THEN updateStatus_(r, CANCELLED)
       ELSE IF ~successful THEN updateStatus_(r, XHR_ERROR)
       ELSE { r }
  ELSE { r }

\* the parser is chosen when there is none
selectParser(r, x) ==
  IF r.parser_ = "null"
  THEN UNION { IF q.parser_ = "null" THEN updateStatus_(q, BAD_DATA) ELSE { q }
               : q \in getParserByResponseHeader_(r, x) }
  ELSE { r }

stopOnError_Never(r) == { r }

\* a status above SUCCESS ends the event
stopOnError(r) ==
  IF r.status_ > SUCCESS
  THEN { Return(c) : c \in clear_(r) }
  ELSE { r }

newData_Whole(responseText, pos) == responseText

\* the part of the response text from the cursor on
newData(responseText, pos) == substr(responseText, pos)

\* parses and delivers any new data
deliverNewData(r, x) ==
  IF Len(x.responseText) > r.pos_
  THEN LET slice == newData(x.responseText, r.pos_)
           moved == [r EXCEPT !.pos_ = advance(r.pos_, x.responseText)]
       IN  UNION { IF q.exc THEN catchInvalidResponse(q) ELSE { q }
                   : q \in parseAndDeliver(moved, slice) }
  ELSE { r }

\* the end of the response, or more to come
finish(r, x) ==
  IF x.readyState = COMPLETE
  THEN LET set == IF Len(x.responseText) = 0
                  THEN updateStatus_(r, NO_DATA)
                  ELSE updateStatus_(r, SUCCESS)
       IN  Stopped(set) \cup UNION { { Return(c) : c \in clear_(q) } : q \in Running(set) }
  ELSE updateStatus_(r, ACTIVE)

deferred_TextUnchecked(x) == x.readyState < INTERACTIVE

\* no partial result yet: the event is left to the next one
deferred(x) ==
  \/ x.readyState < INTERACTIVE
  \/ x.readyState = INTERACTIVE /\ x.responseText = Null

\* the accessors of the XhrIo at the start may throw
onReadyStateChanged_(r, x) ==
  { Throw(r, "xhr") }
  \cup
  IF deferred(x)
  THEN { r }
  ELSE LET successful == (x.status = OK \/ x.status = PARTIAL_CONTENT)
           classified == classify(r, x, successful)
           selected == Stopped(classified)
                       \cup UNION { selectParser(q, x) : q \in Running(classified) }
           checked == Stopped(selected)
                      \cup UNION { stopOnError(q) : q \in Running(selected) }
           delivered == Stopped(checked)
                        \cup UNION { deliverNewData(q, x) : q \in Running(checked) }
       IN  Stopped(delivered) \cup UNION { finish(q, x) : q \in Running(delivered) }

\* the catch block of readyStateChangeHandler_
catchException(r) ==
  LET set == updateStatus_([r EXCEPT !.exc = FALSE, !.done = FALSE], HANDLER_EXCEPTION)
  IN  Stopped(set) \cup UNION { clear_(q) : q \in Running(set) }

\* readyStateChangeHandler_ for an event whose target is target
readyStateChangeHandler_(r, x, target) ==
  LET tried == IF target = r.xhr_
               THEN onReadyStateChanged_(r, x)
               ELSE { Log(r, "unexpected", 0, << >>) }
  IN  UNION { IF q.exc THEN catchException(q) ELSE { q } : q \in tried }

\* ---- operations ---------------------------------------------------------
\* the constructor: the reader holds the XhrIo and listens to it
Init ==
  /\ xhr \in { [readyState |-> 0, lastErrorCode |-> "NO_ERROR", status |-> -1,
                responseText |-> Null, headers |-> h] : h \in HeaderCases }
  /\ xhr_ = "xhr"
  /\ eventHandler_ = TRUE
  /\ parser_ = "null"
  /\ pos_ = 0
  /\ status_ = INIT
  /\ statusHandler_ = FALSE
  /\ dataHandler_ = FALSE
  /\ events = << >>
  /\ escaped = FALSE
  /\ abortCalls = 0
  /\ disposeCalls = 0
  /\ parserTried = FALSE
  /\ parsed = << >>
  /\ lenMonotone = TRUE

\* the fields of the reader after an operation that left it as q
Becomes(q) ==
  /\ xhr_' = q.xhr_
  /\ eventHandler_' = q.eventHandler_
  /\ parser_' = q.parser_
  /\ pos_' = q.pos_
  /\ status_' = q.status_
  /\ statusHandler_' = q.statusHandler_
  /\ dataHandler_' = q.dataHandler_
  /\ events' = q.events
  /\ escaped' = q.exc
  /\ abortCalls' = q.abortCalls
  /\ disposeCalls' = q.disposeCalls
  /\ parserTried' = q.parserTried
  /\ parsed' = q.parsed

setStatusHandler ==
  /\ statusHandler_' = TRUE
  /\ UNCHANGED << xhr, xhr_, eventHandler_, parser_, pos_, status_, dataHandler_, events,
                  escaped, abortCalls, disposeCalls, parserTried, parsed, lenMonotone >>

setDataHandler ==
  /\ dataHandler_' = TRUE
  /\ UNCHANGED << xhr, xhr_, eventHandler_, parser_, pos_, status_, statusHandler_, events,
                  escaped, abortCalls, disposeCalls, parserTried, parsed, lenMonotone >>

\* the XhrIo changes and dispatches READY_STATE_CHANGE; the reader's handler
\* runs if it is still listening.  The ready state of a request never goes
\* back, and COMPLETE is its last event.
ReadyStateChange ==
  /\ xhr.readyState # COMPLETE
  /\ IF eventHandler_
     THEN \E snap \in { sn \in Snapshots : sn.readyState >= xhr.readyState } :
         LET x == [readyState |-> snap.readyState, lastErrorCode |-> snap.lastErrorCode,
                   status |-> snap.status, responseText |-> snap.responseText,
                   headers |-> xhr.headers]
         IN  /\ \E q \in readyStateChangeHandler_(This, x, "xhr") : Becomes(q)
             /\ xhr' = x
             /\ lenMonotone' = (lenMonotone /\ Len(x.responseText) >= Len(xhr.responseText))
     ELSE UNCHANGED vars

\* the handler is called with an event of another XhrIo
UnexpectedReadyStateChange ==
  /\ eventHandler_
  /\ \E q \in readyStateChangeHandler_(This, xhr, "other") : Becomes(q)
  /\ UNCHANGED << xhr, lenMonotone >>

\* the handler is called with an event of the XhrIo after clear_, by a
\* dispatch that had begun before the listener was removed
LateReadyStateChange ==
  /\ xhr_ = "null"
  /\ \E q \in readyStateChangeHandler_(This, xhr, "xhr") : Becomes(q)
  /\ UNCHANGED << xhr, lenMonotone >>

Next ==
  \/ setStatusHandler
  \/ setDataHandler
  \/ ReadyStateChange
  \/ UnexpectedReadyStateChange
  \/ LateReadyStateChange

Spec == Init /\ [][Next]_vars

\* ---- properties ---------------------------------------------------------
Range(f) == { f[i] : i \in DOMAIN f }

HasOp(op) == \E i \in DOMAIN events : events[i].op = op

\* events is what readyStateChangeHandler_ did with the snapshot in xhr:
\* the event was not one with an unexpected target
Processed == events # << >> /\ ~(Len(events) >= 2 /\ events[2].op = "unexpected")

\* the i-th entry of events is a call of updateStatus_ that changed the status
Changed(i) == i > 1 /\ events[i].op = "updateStatus" /\ events[i].st # events[i - 1].st

\* clear_ has run: no listener, no reference, the XhrIo aborted and disposed
TornDown ==
  /\ ~eventHandler_
  /\ xhr_ = "null"
  /\ abortCalls = 1
  /\ disposeCalls = 1

\* C1: once the status is above SUCCESS, the data handler is not called any
\* more and the status keeps its value, also later in the same event.
C1_ErrorStatusIsFinal ==
  \A i, j \in DOMAIN events :
    (i < j /\ events[i].st > SUCCESS)
      => (events[j].op # "dataHandler" /\ events[j].st = events[i].st)

\* C2: no call of updateStatus_ lowers the numeric value of the status.
C2_StatusNeverDecreases ==
  \A i \in DOMAIN events : i > 1 => events[i].st >= events[i - 1].st

\* C3: while the response texts read have not become shorter, the cursor
\* starts at 0, never decreases and is at most the length of the text read
\* in the latest event.
C3_CursorWithinText ==
  /\ pos_ = 0
  /\ [](lenMonotone => pos_ <= Len(xhr.responseText))
  /\ [][lenMonotone' => pos_' >= pos_]_vars

\* C3 witness: the cursor has advanced in two events and is at the end of
\* the text of the second.
C3_Witness ==
  /\ lenMonotone
  /\ Processed
  /\ events[1].n > 0
  /\ pos_ > events[1].n
  /\ pos_ = Len(xhr.responseText)

\* C4: with a status handler set, the handler is called once at each call of
\* updateStatus_ that changes the status, and at no other time: the calls
\* of an event are as many as the changes of the status.
C4_StatusHandlerOncePerChange ==
  /\ \A i \in DOMAIN events :
       /\ events[i].op = "statusHandler" => Changed(i - 1)
       /\ (Changed(i) /\ "statusHandler" \in Range(events[1].s))
            => (i < Len(events) /\ events[i + 1].op = "statusHandler")
  /\ (events # << >> /\ "statusHandler" \in Range(events[1].s))
       => Cardinality({ i \in DOMAIN events : events[i].op = "statusHandler" })
            = Cardinality({ i \in DOMAIN events : Changed(i) })

\* C4 witness: an event re-affirms ACTIVE with a status handler set, and the
\* handler is not called.
C4_Witness ==
  /\ Processed
  /\ "statusHandler" \in Range(events[1].s)
  /\ events[1].st = ACTIVE
  /\ \E i \in DOMAIN events : events[i].op = "updateStatus" /\ events[i].n = ACTIVE
  /\ ~HasOp("statusHandler")

\* C5: when the data handler throws, the status becomes HANDLER_EXCEPTION,
\* the exception stays inside readyStateChangeHandler_ and the XhrIo is torn
\* down.
C5_DataHandlerThrowIsHandlerException ==
  (\E i \in DOMAIN events : events[i].op = "throw" /\ events[i].s = << "dataHandler" >>)
    => (status_ = HANDLER_EXCEPTION /\ ~escaped /\ TornDown)

\* C6: whoever throws during an event (parser, data handler, status handler,
\* XhrIo), no exception leaves readyStateChangeHandler_: it returns normally
\* with the teardown done and a status that reports the fault
\* (HANDLER_EXCEPTION, or BAD_DATA when the catch block of
\* onReadyStateChanged_ took the exception).
C6_NoExceptionEscapes ==
  HasOp("throw")
    => (~escaped /\ TornDown /\ status_ \in {HANDLER_EXCEPTION, BAD_DATA})

\* C7: abort() and dispose() are called at most once each, exactly once
\* when the status is terminal, abort first; and clear_ called again calls
\* neither, changes no field and does not throw.
C7_TransportReleasedOnce ==
  /\ abortCalls <= 1
  /\ disposeCalls <= 1
  /\ status_ >= SUCCESS => (abortCalls = 1 /\ disposeCalls = 1)
  /\ \A i, j \in DOMAIN events :
       (events[i].op = "abort" /\ events[j].op = "dispose") => i < j
  /\ \A q \in clear_(This) : \A q2 \in clear_(q) :
       /\ [q2 EXCEPT !.events = << >>] = [q EXCEPT !.events = << >>]
       /\ ~q2.exc
       /\ \A i \in DOMAIN q2.events :
            i > Len(q.events) => q2.events[i].op \notin {"abort", "dispose"}

\* the status that the error code and the status code of a COMPLETE event
\* call for, or INIT when they call for none
Classified ==
  IF xhr.lastErrorCode = "TIMEOUT" THEN TIMEOUT
  ELSE IF xhr.lastErrorCode = "ABORT" THEN CANCELLED
  ELSE IF xhr.status \notin {OK, PARTIAL_CONTENT} THEN XHR_ERROR
  ELSE INIT

\* C8: a COMPLETE event with the error code TIMEOUT ends with the status
\* TIMEOUT, else with ABORT it ends with CANCELLED, else with a status code
\* other than 200 and 206 it ends with XHR_ERROR; nothing is parsed, the
\* data handler is not called and the reader is torn down.
C8_CompleteClassification ==
  (Processed /\ xhr.readyState = COMPLETE /\ Classified # INIT)
    => /\ status_ = Classified
       /\ ~HasOp("parse")
       /\ ~HasOp("dataHandler")
       /\ TornDown

\* C9: a parser, once set, is never replaced, and
\* getParserByResponseHeader_ is called at most once in the life of a
\* reader, also when it returned null.
C9_ParserSelectedOnce ==
  /\ [][parser_ # "null" => parser_' = parser_]_vars
  /\ [](\A i \in DOMAIN events :
          events[i].op = "getParserByResponseHeader" => events[i].n = 0)

\* C10: when the first selection of a parser returns null, the event ends
\* with the status BAD_DATA, nothing parsed, no call of the data handler,
\* the cursor at 0 and the reader torn down.
C10_NoParserIsBadData ==
  ( /\ Processed
    /\ parserFor(xhr.headers) = "null"
    /\ \E i \in DOMAIN events :
         events[i].op = "getParserByResponseHeader" /\ events[i].n = 0 )
    => /\ status_ = BAD_DATA
       /\ ~HasOp("parse")
       /\ ~HasOp("dataHandler")
       /\ pos_ = 0
       /\ TornDown

\* the status code and the error code of the event in xhr call for no
\* failure status, and a parser is or can be selected
Succeeds == Classified = INIT /\ parserFor(xhr.headers) # "null"

\* C11: a COMPLETE event handled by the reader leaves it torn down with a
\* status other than INIT and ACTIVE.  When nothing threw, the status is
\* SUCCESS exactly when there was no TIMEOUT or ABORT error code, the status
\* code was 200 or 206, a parser was selected, and the response text is not
\* empty; with an empty text instead it is NO_DATA, nothing is parsed and
\* the data handler is not called.
C11_CompleteIsTerminal ==
  (Processed /\ xhr.readyState = COMPLETE)
    => /\ status_ \notin {INIT, ACTIVE}
       /\ TornDown
       /\ ~HasOp("throw")
            => /\ status_ = SUCCESS <=> (Succeeds /\ xhr.responseText # Null)
               /\ (Succeeds /\ xhr.responseText = Null)
                    => (status_ = NO_DATA /\ ~HasOp("parse") /\ ~HasOp("dataHandler"))

\* C12: when the parser throws on the new data, the event ends with the
\* status BAD_DATA and the reader torn down, and from the throw on no call
\* of updateStatus_ asks for another status than BAD_DATA.
C12_ParserThrowIsBadData ==
  \A i \in DOMAIN events :
    (events[i].op = "throw" /\ events[i].s = << "parser" >>)
      => /\ status_ = BAD_DATA
         /\ TornDown
         /\ \A j \in DOMAIN events :
              (j > i /\ events[j].op = "updateStatus") => events[j].n = BAD_DATA

\* C13: the data given to the parser in an event is the response text from
\* the cursor at entry to the end, and the cursor is at the end of the text
\* after the event, also when the parser or the data handler threw; and
\* while each response text extends the one before, all the data given to
\* the parser so far, put together in order, is the first pos_ characters of
\* the latest text.
C13_NoDataParsedTwice ==
  /\ \A i \in DOMAIN events :
       events[i].op = "parse"
         => /\ events[i].s = SubSeq(xhr.responseText, events[1].n + 1, Len(xhr.responseText))
            /\ pos_ = Len(xhr.responseText)
  /\ lenMonotone
       => /\ Len(parsed) = pos_
          /\ pos_ <= Len(xhr.responseText)
          /\ parsed = SubSeq(xhr.responseText, 1, pos_)

\* C13 witness: the second event with new data gave the parser the rest of
\* the text, and the parser threw.
C13_Witness ==
  /\ lenMonotone
  /\ events # << >>
  /\ events[1].n > 0
  /\ \E i \in DOMAIN events : events[i].op = "parse" /\ events[i].s # << >>
  /\ \E i \in DOMAIN events : events[i].op = "throw" /\ events[i].s = << "parser" >>
  /\ Len(parsed) > events[1].n
  /\ parsed = xhr.responseText

\* C14: an event that the reader handles with a ready state below
\* INTERACTIVE, or with INTERACTIVE and no response text, changes nothing:
\* the status, the cursor and the parser stay, no parser is selected,
\* nothing is parsed, no handler is called and nothing is torn down.
C14_DeferredHasNoEffect ==
  [][ ( /\ Processed'
        /\ ~HasOp("throw")'
        /\ \/ xhr'.readyState < INTERACTIVE
           \/ xhr'.readyState = INTERACTIVE /\ Len(xhr'.responseText) = 0 )
      => /\ UNCHANGED << status_, pos_, parser_, parserTried, parsed, xhr_,
                         eventHandler_, abortCalls, disposeCalls >>
         /\ Len(events') = 1 ]_vars

\* C14 witness: a reader with both handlers set handled an INTERACTIVE
\* event with no response text, and is as it was constructed.
C14_Witness ==
  /\ Processed
  /\ Len(events) = 1
  /\ events[1].s = << "statusHandler", "dataHandler" >>
  /\ xhr.readyState = INTERACTIVE
  /\ xhr.responseText = Null
  /\ status_ = INIT
  /\ parser_ = "null"
  /\ eventHandler_
  /\ xhr_ = "xhr"

\* C15: in one event the data handler is called at most once, right after
\* the parse of the new data and with the messages of that parse, which
\* are at least one; it is not called when the response text does not go
\* beyond the cursor at entry.
C15_DataHandlerGetsMessages ==
  /\ Cardinality({ i \in DOMAIN events : events[i].op = "dataHandler" }) <= 1
  /\ \A i \in DOMAIN events :
       events[i].op = "dataHandler"
         => /\ events[i - 1].op = "parse"
            /\ Len(xhr.responseText) > events[1].n
            /\ events[i].s # << >>

\* C16: once clear_ has called abort(), the rest of the event, with an
\* event dispatched from inside abort(), changes no status, calls no
\* handler, parses nothing and calls abort() and dispose() no second time;
\* and an event that reaches the handler after clear_, or with another
\* target than the XhrIo of the reader, changes nothing.
C16_ClearedReaderIsInert ==
  /\ [](/\ abortCalls <= 1
        /\ disposeCalls <= 1
        /\ \A i, j \in DOMAIN events :
             (i < j /\ events[i].op = "abort")
               => /\ events[j].op \in {"unexpected", "dispose"}
                  /\ events[j].st = events[i].st)
  /\ [][ (Len(events') = 2 /\ events'[2].op = "unexpected")
         => /\ UNCHANGED << status_, pos_, parser_, parserTried, parsed, xhr_,
                            eventHandler_, abortCalls, disposeCalls >>
            /\ ~escaped' ]_vars

\* C16 witness: abort() dispatched an event during clear_, the handler took
\* it as unexpected, and dispose() followed.
C16_Witness ==
  /\ TornDown
  /\ status_ = SUCCESS
  /\ \E i \in DOMAIN events :
       /\ i + 2 \in DOMAIN events
       /\ events[i].op = "abort"
       /\ events[i + 1].op = "unexpected"
       /\ events[i + 2].op = "dispose"

\* C17: an INTERACTIVE event with response text, a parser selected or
\* selectable and nothing thrown ends with the status ACTIVE and the reader
\* not torn down: it listens, holds the XhrIo, and abort() and dispose()
\* were not called; the status handler was called only if the status at
\* entry was not ACTIVE.
C17_InteractiveIsActive ==
  ( /\ Processed
    /\ xhr.readyState = INTERACTIVE
    /\ xhr.responseText # Null
    /\ parserFor(xhr.headers) # "null"
    /\ ~HasOp("throw") )
    => /\ status_ = ACTIVE
       /\ eventHandler_
       /\ xhr_ = "xhr"
       /\ abortCalls = 0
       /\ disposeCalls = 0
       /\ HasOp("statusHandler") => events[1].st # ACTIVE

\* the Content-Type of the response in lower case starts with prefix
ContentTypeStartsWith(prefix) == startsWith(toLowerCase(xhr.headers[1]), prefix)

\* C18: the parser selected is a function of the two headers, letter case
\* apart: PbJsonStreamParser for a Content-Type that starts with
\* application/json+protobuf, JsonStreamParser for another that starts with
\* application/json, whatever the Content-Transfer-Encoding; for one that
\* starts with application/x-protobuf, PbStreamParser with no
\* Content-Transfer-Encoding, Base64PbStreamParser with base64, none with
\* another; none for a missing or any other Content-Type.
C18_ParserByHeaders ==
  IF ~parserTried THEN parser_ = "null"
  ELSE parser_ =
         CASE ContentTypeStartsWith(APPLICATION_JSON_PROTOBUF) -> "PbJsonStreamParser"
           [] /\ ContentTypeStartsWith(APPLICATION_JSON)
              /\ ~ContentTypeStartsWith(APPLICATION_JSON_PROTOBUF) -> "JsonStreamParser"
           [] /\ ContentTypeStartsWith(APPLICATION_X_PROTOBUF)
              /\ xhr.headers[2] = Null -> "PbStreamParser"
           [] /\ ContentTypeStartsWith(APPLICATION_X_PROTOBUF)
              /\ toLowerCase(xhr.headers[2]) = BASE64 -> "Base64PbStreamParser"
           [] OTHER -> "null"

\* C18 witness: Base64PbStreamParser was selected for headers that are not
\* in lower case.
C18_Witness ==
  /\ parserTried
  /\ parser_ = "Base64PbStreamParser"
  /\ xhr.headers[1] # toLowerCase(xhr.headers[1])
  /\ xhr.headers[2] # BASE64

\* C19: between events the status is INIT or ACTIVE exactly when the
\* reader holds the XhrIo, listens to it, and has called neither abort()
\* nor dispose(), whatever the handlers did.
C19_LiveIffNotTerminal ==
  status_ \in {INIT, ACTIVE}
    <=> (xhr_ = "xhr" /\ eventHandler_ /\ abortCalls = 0 /\ disposeCalls = 0)

\* C20: the data handler is called only while the status is INIT or
\* ACTIVE, and before any call of the status handler in the same event.
C20_DataBeforeStatus ==
  \A i \in DOMAIN events :
    events[i].op = "dataHandler"
      => /\ events[i].st \in {INIT, ACTIVE}
         /\ \A j \in DOMAIN events : events[j].op = "statusHandler" => j > i

\* C20 witness: the first event is COMPLETE: the data handler got its
\* messages while the status was INIT, and the status handler was then
\* called for SUCCESS.
C20_Witness ==
  /\ Processed
  /\ status_ = SUCCESS
  /\ events[1].st = INIT
  /\ \E i, j \in DOMAIN events :
       /\ i < j
       /\ events[i].op = "dataHandler"
       /\ events[i].st = INIT
       /\ events[i].s # << >>
       /\ events[j].op = "statusHandler"
       /\ events[j].st = SUCCESS

====
